---- MODULE Spec2Model ----
(***************************************************************************)
(* TrustNet 360 (src/app.py): the challenge registry (DBIEngine), the      *)
(* trust-score tracker (TrustCalculator), the biometric sampler            *)
(* (BiometricProcessor) and the FastAPI handlers that drive them.          *)
(*                                                                         *)
(* Every handler is an `async def` whose body never suspends: the only     *)
(* await, on DBIEngine.validate_challenge_response, is on a coroutine with *)
(* no await of its own.  The event loop therefore runs each handler body   *)
(* as one step, and the interleavings it allows are the orders in which    *)
(* the requests in flight get their handler run.  A request is in flight   *)
(* from Submit* until its handler action.                                  *)
(*                                                                         *)
(* Numbers.  random.random() and the confidences are in hundredths.  The   *)
(* running trust value is a fixed-point integer in units of 1/Scale, the   *)
(* samples are tenths, so 0.7*v + 0.3*s is exact for MaxScoreReqs updates. *)
(* The value returned to the caller, round(v, 1), is in tenths.            *)
(***************************************************************************)
EXTENDS Integers, Sequences, FiniteSets, TLC

\* ------------------------------------------------------------------ bounds
MaxIssues == 2
\* requests to /api/vkyc/challenge and /api/vkyc/validate together
MaxChallengeReqs == 4
MaxScoreReqs == 4
\* score requests in a run that starts with score_history near its cap
MaxHistoryReqs == 3
MaxFrames == 2
\* requests to all four endpoints together, in the runs of the whole service
MaxServiceReqs == 3
MaxTicks == 1
\* random.randint(1000, 9999): the model draws from the first NumSuffixes of them
NumSuffixes == 2
\* seconds that pass in one Tick of the clock
TickSeconds == 8

\* ------------------------------------------------------ program constants
SuffixLow == 1000
BaselineScore == 75
SampleLow == 70
SampleHigh == 90
HighThreshold == 85
MediumThreshold == 65
VariationThreshold == 80
FallbackScore == 50
HistoryCap == 100
\* random.random() > 0.1 and random.random() < 0.2, in hundredths
PassThreshold == 10
DeviceThreshold == 20

\* ------------------------------------------------------------- input sets
ChallengeType ==
    {"visual_audio", "cognitive_motor", "emotional_response", "environmental_check"}

\* random.choice(list(ChallengeType)): the model draws the first and the last
Kinds == {"visual_audio", "environmental_check"}

Suffixes == SuffixLow .. (SuffixLow + NumSuffixes - 1)

\* random.uniform(6.0, 15.0): the low end, which one Tick outlasts
Durations == {6}

\* random.uniform(0.8, 0.95), the two ends, in hundredths
Confidences == {80, 95}

\* random.random() in hundredths: one draw at the 0.1 boundary, one above both
UnitDraws == {10, 50}

\* random.uniform(70, 90) in tenths: the two ends and one value in between
SampleTenths == {10 * SampleLow, 852, 10 * SampleHigh}

\* the form field response_data: a JSON document, and a text that is not JSON
Payloads == {"{}", "not json"}

Frames == {"frame"}

\* where inside the try block of calculate_trust_score an exception is raised
Faults == {"none", "sample", "result"}

\* ------------------------------------------------------------ fixed point
Scale == 10 ^ (MaxScoreReqs + 1)

Tenth == Scale \div 10

\* f"dbi_{int(time.time())}_{random.randint(1000, 9999)}": the suffix always has
\* four digits, so the text is determined by, and determines, the pair
ChallengeId(now, suffix) == <<now, suffix>>

\* an id no generate_challenge call can build (the suffix is below 1000)
ForeignId == <<0, 0>>

\* a well-formed id that a client makes up
GuessedId == ChallengeId(TickSeconds, SuffixLow)

\* the form fields of a request to /api/vkyc/validate
ValidateRequest(id, data) == [challenge_id |-> id, response_data |-> data]


VARIABLES
    clock,              \* int(time.time())
    active_challenges,  \* DBIEngine.active_challenges: id -> DBIChallenge
    challenge_history,  \* DBIEngine.challenge_history
    current_score,      \* TrustCalculator.current_score, in units of 1/Scale
    score_history,      \* TrustCalculator.score_history
    demo_stats,         \* the module-level demo_stats
    inflight,           \* requests received whose handler has not run yet
    submitted,          \* requests received so far, per endpoint
    last_response,      \* the latest answer of /api/vkyc/challenge or /api/vkyc/validate
    calls,              \* history: per issued id, a tally of the validate calls answered
    race,               \* history: the first batch of validate requests in flight at once
    score_responses,    \* what /api/trust/current-score answered
    readings,           \* what /api/biometric/process-frame answered
    updates,            \* history: per score request, the fault and the sample drawn
    answered,           \* history: the validate requests that got a result back
    score_race          \* history: a score handler ran with another score request in flight

vars == <<clock, active_challenges, challenge_history, current_score, score_history,
          demo_stats, inflight, submitted, last_response, calls, race,
          score_responses, readings, updates, answered, score_race>>

challenge_vars == <<active_challenges, challenge_history>>
score_vars == <<current_score, score_history>>

\* -------------------------------------------------------------- DBIEngine

\* d with key k bound to v (d[k] = v)
DictSet(d, k, v) == [x \in (DOMAIN d) \cup {k} |-> IF x = k THEN v ELSE d[x]]

\* del d[k]
DictDel(d, k) == [x \in (DOMAIN d) \ {k} |-> d[x]]

\* the DBIChallenge built by generate_challenge; serial stands for the object's
\* identity (its instruction text and float timestamp), which the id does not carry
DBIChallenge(now, suffix, kind, duration, serial) ==
    [challenge_id |-> ChallengeId(now, suffix),
     challenge_type |-> kind,
     expected_duration |-> duration,
     timestamp |-> now,
     serial |-> serial]

\* generate_challenge that keeps no history
generate_challenge_nohistory(active, history, now, suffix, kind, duration) ==
    LET challenge == DBIChallenge(now, suffix, kind, duration, Len(history) + 1)
    IN  [challenge |-> challenge,
         active_challenges |-> DictSet(active, challenge.challenge_id, challenge),
         challenge_history |-> history]

\* DBIEngine.generate_challenge: the engine's state after the call, and the challenge
generate_challenge(active, history, now, suffix, kind, duration) ==
    LET challenge == DBIChallenge(now, suffix, kind, duration, Len(history) + 1)
    IN  [challenge |-> challenge,
         active_challenges |-> DictSet(active, challenge.challenge_id, challenge),
         challenge_history |-> Append(history, challenge)]

NotFoundResult == [valid |-> FALSE, error |-> "Challenge not found", confidence |-> 0]

\* the result with the anomaly reported whatever the outcome
ValidationResult_flagged(challenge, confidence, u) ==
    [valid |-> u > PassThreshold,
     confidence |-> confidence,
     challenge_type |-> challenge.challenge_type,
     biometric_signals |->
         [voice_detected |-> TRUE, face_movement |-> TRUE, timing_natural |-> TRUE],
     anomalies |-> <<"Suspicious timing pattern">>]

\* the result of a validation that found its challenge
ValidationResult(challenge, confidence, u) ==
    LET valid == u > PassThreshold
    IN  [valid |-> valid,
         confidence |-> confidence,
         challenge_type |-> challenge.challenge_type,
         biometric_signals |->
             [voice_detected |-> TRUE, face_movement |-> TRUE, timing_natural |-> TRUE],
         anomalies |-> IF valid THEN <<>> ELSE <<"Suspicious timing pattern">>]

\* validate_challenge_response with the drawn confidence in the NotFound result
validate_challenge_response_drawn(active, challenge_id, confidence, u) ==
    IF challenge_id \notin DOMAIN active
    THEN [result |-> [NotFoundResult EXCEPT !.confidence = confidence],
          active_challenges |-> active]
    ELSE [result |-> ValidationResult(active[challenge_id], confidence, u),
          active_challenges |-> DictDel(active, challenge_id)]

\* validate_challenge_response that cleans up only after a pass
validate_challenge_response_keep(active, challenge_id, confidence, u) ==
    IF challenge_id \notin DOMAIN active
    THEN [result |-> NotFoundResult, active_challenges |-> active]
    ELSE [result |-> ValidationResult(active[challenge_id], confidence, u),
          active_challenges |-> IF u > PassThreshold THEN DictDel(active, challenge_id)
                                ELSE active]

\* DBIEngine.validate_challenge_response: the result and the active set after it
validate_challenge_response(active, challenge_id, confidence, u) ==
    IF challenge_id \notin DOMAIN active
    THEN [result |-> NotFoundResult, active_challenges |-> active]
    ELSE [result |-> ValidationResult(active[challenge_id], confidence, u),
          active_challenges |-> DictDel(active, challenge_id)]

\* json.loads(response_data) returns (TRUE) or raises JSONDecodeError (FALSE)
json_loads_ok(response_data) == response_data = "{}"

\* ------------------------------------------------------- TrustCalculator

\* the update with the weight 0.7 left out
SmoothedScore_unweighted(score, base_tenths) == score + (3 * base_tenths * Tenth) \div 10

\* self.current_score = 0.7 * self.current_score + 0.3 * base_score
SmoothedScore(score, base_tenths) == (7 * score + 3 * base_tenths * Tenth) \div 10

\* the level with HIGH given from 80 on
TrustLevel_eager(score) ==
    IF score >= VariationThreshold * Scale THEN "HIGH"
    ELSE IF score >= MediumThreshold * Scale THEN "MEDIUM"
    ELSE "LOW"

\* trust_level, from the unrounded running value
TrustLevel(score) ==
    IF score >= HighThreshold * Scale THEN "HIGH"
    ELSE IF score >= MediumThreshold * Scale THEN "MEDIUM"
    ELSE "LOW"

RecommendedAction(score) ==
    IF score >= HighThreshold * Scale THEN "ALLOW_SEAMLESS"
    ELSE IF score >= MediumThreshold * Scale THEN "ALLOW_WITH_MONITORING"
    ELSE "REQUIRE_ADDITIONAL_VERIFICATION"

\* the risk factors without the default entry
RiskFactors_nodefault(score, dev) ==
    LET f1 == IF score < VariationThreshold * Scale
              THEN <<"Behavioral pattern variation detected">> ELSE <<>>
        f2 == IF dev < DeviceThreshold THEN <<"New device fingerprint">> ELSE <<>>
    IN  f1 \o f2

\* the risk factors with the device check made first
RiskFactors_reversed(score, dev) ==
    LET f1 == IF score < VariationThreshold * Scale
              THEN <<"Behavioral pattern variation detected">> ELSE <<>>
        f2 == IF dev < DeviceThreshold THEN <<"New device fingerprint">> ELSE <<>>
    IN  IF f2 \o f1 = <<>> THEN <<"All metrics within normal range">> ELSE f2 \o f1

\* the risk factors of the normal path
RiskFactors(score, dev) ==
    LET f1 == IF score < VariationThreshold * Scale
              THEN <<"Behavioral pattern variation detected">> ELSE <<>>
        f2 == IF dev < DeviceThreshold THEN <<"New device fingerprint">> ELSE <<>>
    IN  IF f1 \o f2 = <<>> THEN <<"All metrics within normal range">> ELSE f1 \o f2

\* the value lies exactly half way between two tenths
IsTie(score) == 2 * (score % Tenth) = Tenth

\* round() works on the double that holds the value.  At an exact tie that double
\* lies just below or just above it: as the code computes them, 0.7 * 73.5 + 0.3 * 70
\* and 0.7 * 73.5 + 0.3 * 90 fall below 72.45 and 78.45, while 0.7 * 79.5 + 0.3 * 70
\* and 0.7 * 79.5 + 0.3 * 90 fall above 76.65 and 82.65.  These are the ties the
\* samples of the model reach (TiesKnown); any other goes to the even neighbour.
TiesBelow == {7245 * (Scale \div 100), 7845 * (Scale \div 100)}

TiesAbove == {7665 * (Scale \div 100), 8265 * (Scale \div 100)}

TieUp(score) ==
    IF score \in TiesAbove THEN TRUE
    ELSE IF score \in TiesBelow THEN FALSE
    ELSE (score \div Tenth) % 2 = 1

\* round(self.current_score, 1), in tenths
Round1(score) ==
    LET q == score \div Tenth
        r == score % Tenth
    IN  IF 2 * r > Tenth \/ (IsTie(score) /\ TieUp(score)) THEN q + 1 ELSE q

\* the answer the except branch of the endpoint get_trust_score would give
FallbackTrustScore_demo(now) ==
    [current_score |-> 10 * BaselineScore,
     trust_level |-> "MEDIUM",
     risk_factors |-> <<"Demo mode active">>,
     confidence |-> 80,
     recommended_action |-> "CONTINUE_MONITORING",
     timestamp |-> now]

\* the TrustScore of the except branch of calculate_trust_score
FallbackTrustScore(now) ==
    [current_score |-> 10 * FallbackScore,
     trust_level |-> "MEDIUM",
     risk_factors |-> <<"System error">>,
     confidence |-> 0,
     recommended_action |-> "REQUIRE_MANUAL_REVIEW",
     timestamp |-> now]

\* the history without the cap
RecordResult_nodrop(history, result) == Append(history, result)

\* self.score_history.append(result); pop(0) when longer than 100
RecordResult(history, result) ==
    LET h == Append(history, result)
    IN  IF Len(h) > HistoryCap THEN Tail(h) ELSE h

\* calculate_trust_score working from the value read at start-up, not the
\* running one: what a request computing from a stale read would store
calculate_trust_score_stale(score, history, base_tenths, dev, confidence, fault, now) ==
    IF fault = "sample"
    THEN [result |-> FallbackTrustScore(now),
          current_score |-> score, score_history |-> history]
    ELSE LET new == SmoothedScore(BaselineScore * Scale, base_tenths)
             result == [current_score |-> Round1(new),
                        trust_level |-> TrustLevel(new),
                        risk_factors |-> RiskFactors(new, dev),
                        confidence |-> confidence,
                        recommended_action |-> RecommendedAction(new),
                        timestamp |-> now]
         IN  IF fault = "result"
             THEN [result |-> FallbackTrustScore(now),
                   current_score |-> new, score_history |-> history]
             ELSE [result |-> result,
                   current_score |-> new,
                   score_history |-> RecordResult(history, result)]

\* TrustCalculator.calculate_trust_score: the result and the tracker's state after
\* it.  fault names the statement of the try block that raises, if any.
calculate_trust_score(score, history, base_tenths, dev, confidence, fault, now) ==
    IF fault = "sample"
    THEN [result |-> FallbackTrustScore(now),
          current_score |-> score, score_history |-> history]
    ELSE LET new == SmoothedScore(score, base_tenths)
             result == [current_score |-> Round1(new),
                        trust_level |-> TrustLevel(new),
                        risk_factors |-> RiskFactors(new, dev),
                        confidence |-> confidence,
                        recommended_action |-> RecommendedAction(new),
                        timestamp |-> now]
         IN  IF fault = "result"
             THEN [result |-> FallbackTrustScore(now),
                   current_score |-> new, score_history |-> history]
             ELSE [result |-> result,
                   current_score |-> new,
                   score_history |-> RecordResult(history, result)]

\* ---------------------------------------------------- BiometricProcessor

\* BiometricProcessor.process_frame: frame_data is not read
BiometricResult(frame_data, heart_rate, confidence, deepfake, liveness, now) ==
    [heart_rate |-> heart_rate,
     face_detected |-> TRUE,
     confidence |-> confidence,
     deepfake_probability |-> deepfake,
     liveness_score |-> liveness,
     timestamp |-> now]

\* ------------------------------------------------------- requests in flight

\* the ids the service has handed out so far
IssuedIds == {challenge_history[i].challenge_id : i \in DOMAIN challenge_history}

\* the ids a client sends: one it was given, or one of its own making (a text
\* that is no id at all, or a guess at an id the service may hand out later)
RequestIds == IssuedIds \cup {ForeignId, GuessedId}

\* b with one more r, and with one r less (b maps what is in flight to its count)
BagAdd(b, r) ==
    [x \in (DOMAIN b) \cup {r} |-> IF x = r THEN (IF r \in DOMAIN b THEN b[r] + 1 ELSE 1)
                                   ELSE b[x]]

BagRemove(b, r) ==
    IF b[r] > 1 THEN [b EXCEPT ![r] = @ - 1] ELSE [x \in (DOMAIN b) \ {r} |-> b[x]]

BagSize(b) == LET RECURSIVE Sum(_)
                  Sum(S) == IF S = {} THEN 0
                            ELSE LET x == CHOOSE y \in S : TRUE IN b[x] + Sum(S \ {x})
              IN  Sum(DOMAIN b)

\* ------------------------------------------------- what the callers have seen

NoResponse == [op |-> "none"]

\* the three things a caller of /api/vkyc/validate can get back: a pass/fail
\* result ("found"), the NotFound result, or an HTTP 500
Outcome(response) ==
    IF response.status # 200 THEN "error"
    ELSE IF "error" \in DOMAIN response.body THEN "notfound"
    ELSE "found"

NoCalls == [n |-> 0, first |-> "none", found |-> 0, notfound |-> 0, passed |-> 0]

\* the tally of the validate calls answered so far for each issued id
Tally(tally, response) ==
    LET id == response.request.challenge_id
        o  == Outcome(response)
    IN  IF id \notin DOMAIN tally THEN tally
        ELSE [tally EXCEPT ![id] =
                 [n |-> @.n + 1,
                  first |-> IF @.n = 0 THEN o ELSE @.first,
                  found |-> @.found + (IF o = "found" THEN 1 ELSE 0),
                  notfound |-> @.notfound + (IF o = "notfound" THEN 1 ELSE 0),
                  passed |-> @.passed +
                      (IF o = "found" /\ response.body.valid THEN 1 ELSE 0)]]

\* the requests of bag b that name id
ForId(b, id) == [r \in {x \in DOMAIN b : x.challenge_id = id} |-> b[r]]

\* how often id was issued
TimesIssued(history, id) ==
    Cardinality({i \in DOMAIN history : history[i].challenge_id = id})

NoRace == [id |-> ForeignId, size |-> 0, waiting |-> <<>>, results |-> <<>>]

\* The first race: it starts when a validate handler runs while two or more
\* validate requests for its id are in flight, the id is active and was issued
\* once.  waiting holds the racers not answered yet, results their outcomes in
\* the order the event loop ran them.
RaceAfter(r, req, flying, active, history, response) ==
    LET id   == req.challenge_id
        mine == ForId(flying, id)
    IN  IF r.size = 0
        THEN IF /\ BagSize(mine) >= 2
                /\ id \in DOMAIN active
                /\ TimesIssued(history, id) = 1
             THEN [id |-> id, size |-> BagSize(mine), waiting |-> BagRemove(mine, req),
                   results |-> <<Outcome(response)>>]
             ELSE r
        ELSE IF id = r.id /\ req \in DOMAIN r.waiting
             THEN [r EXCEPT !.waiting = BagRemove(@, req),
                            !.results = Append(@, Outcome(response))]
             ELSE r

\* what a score request drew: the fault, if any, and the sample of its update
\* (no sample when random.uniform itself is the statement that raises)
Drawn(fault, base_tenths) ==
    [fault |-> fault, sample |-> IF fault = "sample" THEN 0 ELSE base_tenths]

\* ------------------------------------------------------------------- Init

Init ==
    /\ clock = 0
    /\ active_challenges = <<>>
    /\ challenge_history = <<>>
    /\ current_score = BaselineScore * Scale
    /\ score_history = <<>>
    /\ demo_stats = [sessions |-> 0, challenges |-> 0, validations |-> 0]
    /\ inflight = [validate |-> <<>>, score |-> 0, frame |-> 0]
    /\ submitted = [challenge |-> 0, validate |-> 0, score |-> 0, frame |-> 0]
    /\ last_response = NoResponse
    /\ calls = <<>>
    /\ race = NoRace
    /\ score_responses = <<>>
    /\ readings = <<>>
    /\ updates = <<>>
    /\ answered = 0
    /\ score_race = FALSE

\* The answer of a score request that samples 75.0 while the running value is
\* 75.0 (no device factor, confidence 0.8): the running value stays 75.0, so any
\* number of such requests leaves the tracker at its baseline.
SteadyResult ==
    calculate_trust_score(BaselineScore * Scale, <<>>, 10 * BaselineScore,
                          50, 80, "none", 0).result

\* how many such requests were served before the observed run starts: one short
\* of the cap of score_history, so that the next result fills it and the one
\* after overflows it
Preloads == {HistoryCap - 1}

\* the service after n steady score requests were served within the first
\* second; score_responses and updates list the requests of the observed run
InitHistory ==
    /\ clock = 0
    /\ active_challenges = <<>>
    /\ challenge_history = <<>>
    /\ current_score = BaselineScore * Scale
    /\ \E n \in Preloads :
          score_history = [i \in 1 .. n |-> SteadyResult]
    /\ score_responses = <<>>
    /\ updates = <<>>
    /\ demo_stats = [sessions |-> 0, challenges |-> 0, validations |-> 0]
    /\ inflight = [validate |-> <<>>, score |-> 0, frame |-> 0]
    /\ submitted = [challenge |-> 0, validate |-> 0, score |-> 0, frame |-> 0]
    /\ last_response = NoResponse
    /\ calls = <<>>
    /\ race = NoRace
    /\ readings = <<>>
    /\ answered = 0
    /\ score_race = FALSE

\* ---------------------------------------------------------------- actions

\* a second of wall-clock time passes (TickSeconds of them)
Tick ==
    /\ clock < MaxTicks * TickSeconds
    /\ clock' = clock + TickSeconds
    /\ UNCHANGED <<active_challenges, challenge_history, current_score, score_history,
                   demo_stats, inflight, submitted, last_response, calls, race,
                   score_responses, readings, updates, answered, score_race>>

\* a client posts challenge_id and response_data to /api/vkyc/validate
SubmitValidate ==
    /\ submitted.challenge + submitted.validate < MaxChallengeReqs
    /\ \E id \in RequestIds, data \in Payloads :
          inflight' = [inflight EXCEPT !.validate = BagAdd(@, ValidateRequest(id, data))]
    /\ submitted' = [submitted EXCEPT !.validate = @ + 1]
    /\ UNCHANGED <<clock, active_challenges, challenge_history, current_score,
                   score_history, demo_stats, last_response, calls, race,
                   score_responses, readings, updates, answered, score_race>>

\* a client gets /api/trust/current-score
SubmitScore ==
    /\ submitted.score < MaxScoreReqs
    /\ submitted' = [submitted EXCEPT !.score = @ + 1]
    /\ inflight' = [inflight EXCEPT !.score = @ + 1]
    /\ UNCHANGED <<clock, active_challenges, challenge_history, current_score,
                   score_history, demo_stats, last_response, calls, race,
                   score_responses, readings, updates, answered, score_race>>

\* a client posts frame_data to /api/biometric/process-frame
SubmitFrame ==
    /\ submitted.frame < MaxFrames
    /\ inflight' = [inflight EXCEPT !.frame = @ + 1]
    /\ submitted' = [submitted EXCEPT !.frame = @ + 1]
    /\ UNCHANGED <<clock, active_challenges, challenge_history, current_score,
                   score_history, demo_stats, last_response, calls, race,
                   score_responses, readings, updates, answered, score_race>>

\* POST /api/vkyc/challenge: the request carries no input, so the step of its
\* handler stands for the whole request
generate_challenge_endpoint ==
    /\ submitted.challenge < MaxIssues
    /\ submitted.challenge + submitted.validate < MaxChallengeReqs
    /\ submitted' = [submitted EXCEPT !.challenge = @ + 1]
    /\ \E suffix \in Suffixes, kind \in Kinds, duration \in Durations :
          LET g == generate_challenge(active_challenges, challenge_history,
                                      clock, suffix, kind, duration)
          IN  /\ active_challenges' = g.active_challenges
              /\ challenge_history' = g.challenge_history
              /\ last_response' =
                    [op |-> "challenge", status |-> 200,
                     body |-> [challenge_id |-> g.challenge.challenge_id,
                               challenge_type |-> g.challenge.challenge_type,
                               expected_duration |-> g.challenge.expected_duration,
                               timestamp |-> g.challenge.timestamp]]
              /\ calls' = IF g.challenge.challenge_id \in DOMAIN calls THEN calls
                           ELSE DictSet(calls, g.challenge.challenge_id, NoCalls)
    /\ demo_stats' = [demo_stats EXCEPT !.challenges = @ + 1]
    /\ UNCHANGED <<clock, current_score, score_history, inflight, race, score_responses,
                   readings, updates, answered, score_race>>

\* the handler of POST /api/vkyc/validate
validate_response ==
    \E req \in DOMAIN inflight.validate :
       /\ inflight' = [inflight EXCEPT !.validate = BagRemove(@, req)]
       /\ IF ~json_loads_ok(req.response_data)
          THEN \* json.loads raises; the handler answers HTTPException(500)
               /\ last_response' =
                     [op |-> "validate", status |-> 500, request |-> req,
                      body |-> [detail |-> "JSONDecodeError"]]
               /\ UNCHANGED <<active_challenges, demo_stats, answered>>
          ELSE \E confidence \in Confidences, u \in UnitDraws :
                  LET v == validate_challenge_response(active_challenges,
                               req.challenge_id, confidence, u)
                  IN  /\ active_challenges' = v.active_challenges
                      /\ demo_stats' = [demo_stats EXCEPT !.validations = @ + 1]
                      /\ answered' = answered + 1
                      /\ last_response' =
                            [op |-> "validate", status |-> 200, request |-> req,
                             body |-> v.result]
       /\ calls' = Tally(calls, last_response')
       /\ race' = RaceAfter(race, req, inflight.validate, active_challenges,
                            challenge_history, last_response')
       /\ UNCHANGED <<clock, challenge_history, current_score, score_history,
                      submitted, score_responses, readings, updates, score_race>>

\* the handler of GET /api/trust/current-score
get_trust_score ==
    /\ inflight.score > 0
    /\ \E base \in SampleTenths, dev \in UnitDraws, confidence \in Confidences,
          fault \in Faults :
          LET c == calculate_trust_score(current_score, score_history, base, dev,
                                         confidence, fault, clock)
          IN  /\ current_score' = c.current_score
              /\ score_history' = c.score_history
              /\ score_responses' = Append(score_responses, c.result)
              /\ updates' = Append(updates, Drawn(fault, base))
    /\ inflight' = [inflight EXCEPT !.score = @ - 1]
    /\ score_race' = (score_race \/ inflight.score >= 2)
    /\ UNCHANGED <<clock, active_challenges, challenge_history, demo_stats, submitted,
                   last_response, calls, race, readings, answered>>

\* process_frame counting the frame as a session in demo_stats
process_frame_counted ==
    /\ inflight.frame > 0
    /\ inflight' = [inflight EXCEPT !.frame = @ - 1]
    /\ \E frame_data \in Frames, heart_rate \in {68, 85}, confidence \in {85, 95},
          deepfake \in {5, 15}, liveness \in {88, 96} :
          readings' = Append(readings,
              BiometricResult(frame_data, heart_rate, confidence,
                              deepfake, liveness, clock))
    /\ demo_stats' = [demo_stats EXCEPT !.sessions = @ + 1]
    /\ UNCHANGED <<clock, active_challenges, challenge_history, current_score,
                   score_history, submitted, last_response, calls, race,
                   score_responses, updates, answered, score_race>>

\* the handler of POST /api/biometric/process-frame
process_frame ==
    /\ inflight.frame > 0
    /\ inflight' = [inflight EXCEPT !.frame = @ - 1]
    /\ \E frame_data \in Frames, heart_rate \in {68, 85}, confidence \in {85, 95},
          deepfake \in {5, 15}, liveness \in {88, 96} :
          readings' = Append(readings,
              BiometricResult(frame_data, heart_rate, confidence,
                              deepfake, liveness, clock))
    /\ UNCHANGED <<clock, active_challenges, challenge_history, current_score,
                   score_history, demo_stats, submitted, last_response, calls, race,
                   score_responses, updates, answered, score_race>>

\* --------------------------------------------------------- specifications

\* ------------------------------------------------------- kinds of step

\* the handler of /api/vkyc/validate ran: a request left the ones in flight
ValidateStep == submitted' = submitted /\ inflight'.validate # inflight.validate

\* the handler of /api/vkyc/challenge ran
IssueStep == submitted'.challenge = submitted.challenge + 1

\* the handler of /api/trust/current-score ran
ScoreStep == inflight'.score = inflight.score - 1

\* the handler of /api/biometric/process-frame ran
FrameStep == inflight'.frame = inflight.frame - 1

\* the request a ValidateStep answered, and whether json.loads let it through to
\* DBIEngine.validate_challenge_response
Answered == last_response'.request

EngineCalled == json_loads_ok(Answered.response_data)

NextChallenge ==
    \/ Tick
    \/ SubmitValidate
    \/ generate_challenge_endpoint
    \/ validate_response

NextScore ==
    \/ SubmitScore
    \/ get_trust_score

NextBiometric ==
    \/ SubmitFrame
    \/ process_frame

\* the score endpoint for the first MaxHistoryReqs requests of a run
NextHistory ==
    \/ SubmitScore /\ submitted'.score <= MaxHistoryReqs
    \/ get_trust_score

\* the requests received so far, over all endpoints
Requests(s) == s.challenge + s.validate + s.score + s.frame

\* the four endpoints side by side, for the first MaxServiceReqs requests, all
\* of them served within one second of the clock
NextService ==
    \/ SubmitValidate /\ Requests(submitted') <= MaxServiceReqs
    \/ SubmitScore /\ Requests(submitted') <= MaxServiceReqs
    \/ SubmitFrame /\ Requests(submitted') <= MaxServiceReqs
    \/ generate_challenge_endpoint /\ Requests(submitted') <= MaxServiceReqs
    \/ validate_response
    \/ get_trust_score
    \/ process_frame

Next == NextChallenge \/ NextScore \/ NextBiometric

\* the whole service
Spec == Init /\ [][Next]_vars

\* the challenge registry and its two endpoints
SpecChallenge == Init /\ [][NextChallenge]_vars

\* the trust-score tracker and its endpoint
SpecScore == Init /\ [][NextScore]_vars

\* the biometric sampler and its endpoint
SpecBiometric == Init /\ [][NextBiometric]_vars

\* the whole service under a budget of requests
SpecService == Init /\ [][NextService]_vars

\* the trust-score tracker with its history near the cap
SpecHistory == InitHistory /\ [][NextHistory]_vars

\* ------------------------------------------------------------------ claims

\* C1: single use.  For every id that generate_challenge handed out, the first
\* validate call with it gets a pass/fail result, every later one gets NotFound,
\* and so at most one validate call with it gets valid = true.
C1_SingleUse ==
    \A id \in DOMAIN calls :
        calls[id].n >= 1 =>
            /\ calls[id].first = "found"
            /\ calls[id].notfound = calls[id].n - 1
            /\ calls[id].passed <= 1

\* C1 restricted to payloads that json.loads accepts: the same id is found twice
\* once generate_challenge has handed it out again.
C1_FoundAtMostOnce == \A id \in DOMAIN calls : calls[id].found <= 1

\* C2: concurrent validation.  Once all the validate requests that were in flight
\* at once for one id, issued once and active, have been answered, exactly one of
\* them got a result that is not NotFound and every other one got NotFound.
C2_OneWinner ==
    (/\ race.size >= 2
     /\ race.waiting = <<>>
     /\ TimesIssued(challenge_history, race.id) = 1) =>
        LET won == {i \in DOMAIN race.results : race.results[i] # "notfound"}
        IN  /\ Len(race.results) = race.size
            /\ Cardinality(won) = 1
            /\ \A i \in won : race.results[i] = "found"

\* The part of C2 the event loop decides: of the requests in flight at once, at
\* most one finds the challenge in the active set, and every one that reaches
\* DBIEngine.validate_challenge_response after it gets NotFound.
C2_AtMostOneFinds ==
    (race.size >= 2 /\ TimesIssued(challenge_history, race.id) = 1) =>
        LET found == {i \in DOMAIN race.results : race.results[i] = "found"}
        IN  /\ Cardinality(found) <= 1
            /\ \A i \in DOMAIN race.results :
                   race.results[i] = "notfound" => \E j \in found : j < i

\* C3: the id generate_challenge returns differs from the id of every challenge
\* in the active set at the time of the call, so no outstanding challenge is
\* overwritten.
C3_FreshId ==
    [][IssueStep =>
          /\ last_response'.body.challenge_id \notin DOMAIN active_challenges
          /\ \A id \in DOMAIN active_challenges :
                /\ id \in DOMAIN active_challenges'
                /\ active_challenges'[id] = active_challenges[id]]_vars

\* C4: DBIEngine.validate_challenge_response with an id that was never issued
\* returns NotFound (valid false, confidence 0) and leaves the active set and the
\* challenge history as they were.
C4_NeverIssuedNotFound ==
    [][(ValidateStep /\ EngineCalled /\ Answered.challenge_id \notin IssuedIds) =>
          /\ last_response'.status = 200
          /\ Outcome(last_response') = "notfound"
          /\ last_response'.body.valid = FALSE
          /\ last_response'.body.confidence = 0
          /\ UNCHANGED <<active_challenges, challenge_history>>]_vars

\* C4's case has happened: a never-issued id was answered while a challenge was
\* outstanding.
C4_Witness ==
    /\ last_response.op = "validate"
    /\ last_response.status = 200
    /\ last_response.request.challenge_id \notin IssuedIds
    /\ last_response.request.challenge_id = GuessedId
    /\ DOMAIN active_challenges # {}

\* C5: DBIEngine.validate_challenge_response with an id of the active set removes
\* that id, whether the drawn outcome is pass or fail, and removes nothing else.
C5_Consumed ==
    [][(ValidateStep /\ EngineCalled
            /\ Answered.challenge_id \in DOMAIN active_challenges) =>
          /\ Outcome(last_response') = "found"
          /\ DOMAIN active_challenges' =
                 (DOMAIN active_challenges) \ {Answered.challenge_id}
          /\ \A id \in DOMAIN active_challenges' :
                active_challenges'[id] = active_challenges[id]]_vars

\* C5's case has happened: a validation that failed consumed its challenge and
\* left another one outstanding.
C5_Witness ==
    /\ last_response.op = "validate"
    /\ last_response.status = 200
    /\ Outcome(last_response) = "found"
    /\ last_response.body.valid = FALSE
    /\ last_response.request.challenge_id \notin DOMAIN active_challenges
    /\ DOMAIN active_challenges # {}

\* C6: a challenge is in the active set when generate_challenge returns and stays
\* there, the same challenge, through every step that is not a validate call with
\* its own id.
C6_StaysUntilValidated ==
    [][/\ IssueStep =>
             LET new == challenge_history'[Len(challenge_history')]
             IN  /\ new.challenge_id \in DOMAIN active_challenges'
                 /\ active_challenges'[new.challenge_id] = new
       /\ \A id \in DOMAIN active_challenges :
             \/ ValidateStep /\ Answered.challenge_id = id
             \/ /\ id \in DOMAIN active_challenges'
                /\ active_challenges'[id] = active_challenges[id]]_vars

\* The part of C6 about time and the other requests: an id leaves the active set
\* only through a validate call with that id.
C6_IdStaysUntilValidated ==
    [][\A id \in DOMAIN active_challenges :
          \/ ValidateStep /\ Answered.challenge_id = id
          \/ id \in DOMAIN active_challenges']_vars

\* C7: NotFound is the only error a caller of validate can see, and the payload is
\* opaque: whatever response_data holds, a validate request for an id of the
\* active set gets a ValidationResult and consumes the challenge.
C7_OpaquePayload ==
    [][(ValidateStep /\ Answered.challenge_id \in DOMAIN active_challenges) =>
          /\ Outcome(last_response') = "found"
          /\ Answered.challenge_id \notin DOMAIN active_challenges']_vars

\* The part of C7 that holds: among the payloads json.loads accepts, and they are
\* all the engine ever sees, the payload decides nothing.
C7_ParsedPayloadIgnored ==
    [][(ValidateStep /\ EngineCalled) =>
          /\ Outcome(last_response') # "error"
          /\ Answered.challenge_id \in DOMAIN active_challenges =>
                /\ Outcome(last_response') = "found"
                /\ Answered.challenge_id \notin DOMAIN active_challenges']_vars

\* The fixed-point arithmetic is exact: every update the bounds allow divides
\* evenly.
ExactUpdates ==
    inflight.score > 0 =>
        \A base \in SampleTenths : (7 * current_score + 3 * base * Tenth) % 10 = 0

\* Every exact tie the running value reaches is one whose rounding is known.
TiesKnown == IsTie(current_score) => current_score \in TiesBelow \cup TiesAbove

\* the level and the action the documented thresholds give a value in tenths
DocumentedLevel(tenths) ==
    IF tenths >= 10 * HighThreshold THEN "HIGH"
    ELSE IF tenths >= 10 * MediumThreshold THEN "MEDIUM"
    ELSE "LOW"

DocumentedAction(tenths) ==
    IF tenths >= 10 * HighThreshold THEN "ALLOW_SEAMLESS"
    ELSE IF tenths >= 10 * MediumThreshold THEN "ALLOW_WITH_MONITORING"
    ELSE "REQUIRE_ADDITIONAL_VERIFICATION"

\* C8: in every TrustScore returned, level and action are the ones the 85/65
\* thresholds give the returned value.  Stated for the runs in which no fault has
\* occurred, where every answer comes from the normal path and is in score_history.
C8_LevelMatchesValue ==
    score_responses = score_history =>
        \A i \in DOMAIN score_responses :
            /\ score_responses[i].trust_level =
                   DocumentedLevel(score_responses[i].current_score)
            /\ score_responses[i].recommended_action =
                   DocumentedAction(score_responses[i].current_score)

\* C8 for every answer of the endpoint, the fallback included.
C8_LevelMatchesValueAll ==
    \A i \in DOMAIN score_responses :
        /\ score_responses[i].trust_level =
               DocumentedLevel(score_responses[i].current_score)
        /\ score_responses[i].recommended_action =
               DocumentedAction(score_responses[i].current_score)

Min(a, b) == IF a <= b THEN a ELSE b

Max(a, b) == IF a >= b THEN a ELSE b

\* C9: an update leaves the running value between min(previous, 70) and
\* max(previous, 90).
C9_ConvexHull ==
    [][ScoreStep =>
          /\ current_score' >= Min(current_score, SampleLow * Scale)
          /\ current_score' <= Max(current_score, SampleHigh * Scale)]_vars

\* C9's case has happened: updates have moved the running value off the baseline,
\* up past the HIGH threshold.
C9_Witness ==
    /\ Len(score_history) >= 1
    /\ current_score > HighThreshold * Scale

\* C10: every TrustScore the endpoint answers with, from the normal path or the
\* fallback path, has at least one risk factor.
C10_RiskFactorsNonEmpty ==
    \A i \in DOMAIN score_responses : Len(score_responses[i].risk_factors) >= 1

\* C10's case has happened: the fallback has answered, and so has the normal path
\* with neither of its two factors triggered.
C10_Witness ==
    /\ \E i \in DOMAIN score_responses :
          score_responses[i].risk_factors = <<"System error">>
    /\ \E i \in DOMAIN score_responses :
          score_responses[i].risk_factors = <<"All metrics within normal range">>

\* the samples of the updates that were carried out, in the order the event loop
\* ran the handlers (a request whose random.uniform raised made no update)
AppliedSamples ==
    LET made == SelectSeq(updates, LAMBDA d : d.fault # "sample")
    IN  [i \in DOMAIN made |-> made[i].sample]

\* value <- 0.7 * value + 0.3 * sample, for the samples of seq one after another
RECURSIVE Replay(_, _)
Replay(value, seq) ==
    IF seq = <<>> THEN value
    ELSE Replay((7 * value + 3 * Head(seq) * Tenth) \div 10, Tail(seq))

\* C11: no lost updates.  However the score requests in flight are interleaved,
\* the running value is the baseline with the updates of the completed requests
\* applied one after another, in the order their handlers ran: no update is
\* computed from a stale value, none is overwritten.
C11_NoLostUpdates == current_score = Replay(BaselineScore * Scale, AppliedSamples)

\* C11's case has happened: two requests were in flight at once, both have
\* completed with different samples, and nothing is in flight any more.
C11_Witness ==
    /\ inflight.score = 0
    /\ Len(updates) >= 2
    /\ score_race
    /\ \A i \in DOMAIN updates : updates[i].fault = "none"
    /\ \E i, j \in DOMAIN updates : updates[i].sample # updates[j].sample

\* C12: a score request never surfaces a failure.  Every request whose handler
\* ran got a TrustScore back, and when a statement of the computation raised,
\* that TrustScore is the fixed fallback: 50, MEDIUM, ["System error"],
\* confidence 0, REQUIRE_MANUAL_REVIEW.
C12_FaultGivesFallback ==
    /\ Len(score_responses) = Len(updates)
    /\ Len(score_responses) + inflight.score = submitted.score
    /\ \A i \in DOMAIN updates :
          updates[i].fault # "none" =>
              /\ score_responses[i].current_score = 10 * FallbackScore
              /\ score_responses[i].trust_level = "MEDIUM"
              /\ score_responses[i].risk_factors = <<"System error">>
              /\ score_responses[i].confidence = 0
              /\ score_responses[i].recommended_action = "REQUIRE_MANUAL_REVIEW"

\* C12's case has happened: one request failed at the sampling, another while
\* the result was built, and both have been answered.
C12_Witness ==
    /\ \E i \in DOMAIN updates : updates[i].fault = "sample"
    /\ \E i \in DOMAIN updates : updates[i].fault = "result"
    /\ Len(score_responses) = Len(updates)

\* C13: score_history never holds more than 100 entries.  A request of the
\* normal path appends its result and, when that makes 101, drops the oldest
\* entry; a request that ends in the fallback leaves the history alone.  So the
\* history is always the most recent (at most 100) results in call order.
C13_HistoryCapped ==
    /\ [](Len(score_history) <= HistoryCap)
    /\ [][ScoreStep =>
            LET answer == score_responses'[Len(score_responses')]
                all    == Append(score_history, answer)
            IN  IF updates'[Len(updates')].fault # "none"
                THEN score_history' = score_history
                ELSE score_history' =
                        IF Len(all) > HistoryCap
                        THEN SubSeq(all, Len(all) - HistoryCap + 1, Len(all))
                        ELSE all]_vars

\* C13's case has happened: the history was filled to the cap, a further result
\* made it overflow, and the two newest results are its last two entries.
C13_Witness ==
    /\ Len(score_history) = HistoryCap
    /\ Len(SelectSeq(updates, LAMBDA d : d.fault = "none")) >= 2
    /\ score_history[HistoryCap] # SteadyResult
    /\ score_history[HistoryCap - 1] # SteadyResult
    /\ score_history[HistoryCap - 2] = SteadyResult

\* C14: the components are independent.  The handlers of issue and validate
\* leave the running trust value and the score history as they were, the handler
\* of the score request leaves the active set and the challenge history as they
\* were, and the handler of the biometric request changes nothing the service
\* keeps: neither component's state, nor demo_stats.
C14_Independent ==
    [][/\ (IssueStep \/ ValidateStep) => UNCHANGED <<current_score, score_history>>
       /\ ScoreStep => UNCHANGED <<active_challenges, challenge_history>>
       /\ FrameStep => UNCHANGED <<active_challenges, challenge_history, current_score,
                                   score_history, demo_stats>>]_vars

\* C14's case has happened: the handlers of three components have run in one
\* run, leaving a challenge outstanding, a score on record and a frame answered.
C14_Witness ==
    /\ DOMAIN active_challenges # {}
    /\ Len(score_history) >= 1
    /\ current_score # BaselineScore * Scale
    /\ Len(readings) >= 1

\* C15: on the normal path the risk factors are built from the updated running
\* value in this order: "Behavioral pattern variation detected" first, exactly
\* when the value is below 80; "New device fingerprint" may follow; "All metrics
\* within normal range" only as the sole entry, when neither was added.
C15_RiskFactorOrder ==
    [][(ScoreStep /\ updates'[Len(updates')].fault = "none") =>
          LET f == score_responses'[Len(score_responses')].risk_factors
              B == "Behavioral pattern variation detected"
              D == "New device fingerprint"
              A == "All metrics within normal range"
          IN  IF current_score' < VariationThreshold * Scale
              THEN f \in {<<B>>, <<B, D>>}
              ELSE f \in {<<D>>, <<A>>}]_vars

\* C15's case has happened: the normal path has answered with both factors, with
\* the device factor alone, and with the default entry.
C15_Witness ==
    /\ \E i \in DOMAIN score_history :
          score_history[i].risk_factors =
              <<"Behavioral pattern variation detected", "New device fingerprint">>
    /\ \E i \in DOMAIN score_history :
          score_history[i].risk_factors = <<"New device fingerprint">>
    /\ \E i \in DOMAIN score_history :
          score_history[i].risk_factors = <<"All metrics within normal range">>

\* C16: in every result of a validation that found its id, anomalies is empty
\* exactly when valid is true and is ["Suspicious timing pattern"] exactly when
\* valid is false, and the three biometric signals are all true either way.
C16_AnomaliesMatchValid ==
    (last_response.op = "validate" /\ Outcome(last_response) = "found") =>
        LET body == last_response.body
        IN  /\ body.valid \in BOOLEAN
            /\ (body.anomalies = <<>>) <=> body.valid
            /\ (body.anomalies = <<"Suspicious timing pattern">>) <=> ~body.valid
            /\ body.biometric_signals.voice_detected
            /\ body.biometric_signals.face_movement
            /\ body.biometric_signals.timing_natural

\* C16's case has happened: a validation has passed after another one, of a
\* different challenge, failed.
C16_Witness ==
    /\ last_response.op = "validate"
    /\ Outcome(last_response) = "found"
    /\ last_response.body.valid
    /\ \E id \in DOMAIN calls : calls[id].found = 1 /\ calls[id].passed = 0

\* C17: the kind in a pass/fail result is the kind of the challenge that the
\* issue call returned under that id.  Stated at the first validation that finds
\* the id: every issue call that has returned this id so far returned the kind
\* the result reports.
C17_ReportsIssuedKind ==
    [][(/\ ValidateStep
        /\ Outcome(last_response') = "found"
        /\ calls[Answered.challenge_id].found = 0) =>
          \A i \in DOMAIN challenge_history :
              challenge_history[i].challenge_id = Answered.challenge_id =>
                  challenge_history[i].challenge_type =
                      last_response'.body.challenge_type]_vars

\* The part of C17 that holds: for an id that was issued once, the result reports
\* the kind of that one challenge.
C17_KindOfOnlyIssue ==
    [][(/\ ValidateStep
        /\ Outcome(last_response') = "found"
        /\ TimesIssued(challenge_history, Answered.challenge_id) = 1) =>
          \A i \in DOMAIN challenge_history :
              challenge_history[i].challenge_id = Answered.challenge_id =>
                  challenge_history[i].challenge_type =
                      last_response'.body.challenge_type]_vars

\* C18: from the baseline 75.0 on, the running value stays within [70, 90]; so no
\* answer of the normal path has level LOW or action
\* REQUIRE_ADDITIONAL_VERIFICATION, and none of the first three score requests
\* after start-up is answered HIGH.
C18_StaysInRange ==
    /\ current_score >= SampleLow * Scale
    /\ current_score <= SampleHigh * Scale
    /\ \A i \in DOMAIN score_responses :
          /\ updates[i].fault = "none" =>
                /\ score_responses[i].trust_level # "LOW"
                /\ score_responses[i].recommended_action #
                       "REQUIRE_ADDITIONAL_VERIFICATION"
          /\ i <= 3 => score_responses[i].trust_level # "HIGH"

\* C18's case has happened: three requests answered MEDIUM on the way up, and
\* the fourth is the first one answered HIGH.
C18_Witness ==
    /\ Len(score_responses) >= 4
    /\ \A i \in 1 .. 3 : /\ updates[i].fault = "none"
                         /\ score_responses[i].trust_level = "MEDIUM"
    /\ score_responses[4].trust_level = "HIGH"
    /\ score_responses[4].recommended_action = "ALLOW_SEAMLESS"

\* the validate requests whose handler has run, whatever it answered
Handled == submitted.validate - BagSize(inflight.validate)

\* C19: every challenge of the active set is in the challenge history; the
\* history only grows, by one entry per issue and never through a validate;
\* demo_stats["challenges"] is the length of the history, and
\* demo_stats["validations"] is the number of validate requests that got a
\* result back, NotFound results included.
C19_HistoryAndCounters ==
    /\ [](/\ \A id \in DOMAIN active_challenges :
               \E i \in DOMAIN challenge_history :
                   challenge_history[i] = active_challenges[id]
          /\ demo_stats.challenges = Len(challenge_history)
          /\ demo_stats.validations = answered)
    /\ [][/\ Len(challenge_history') >= Len(challenge_history)
          /\ SubSeq(challenge_history', 1, Len(challenge_history)) = challenge_history
          /\ IssueStep => Len(challenge_history') = Len(challenge_history) + 1
          /\ ValidateStep => challenge_history' = challenge_history]_vars

\* C19's case has happened: with a challenge issued and still active, one
\* validate request was answered 500 and another one NotFound.
C19_Witness ==
    /\ DOMAIN active_challenges # {}
    /\ demo_stats.challenges >= 1
    /\ demo_stats.validations >= 1
    /\ Handled > answered
    /\ last_response.op = "validate"
    /\ Outcome(last_response) = "notfound"

====
